---- MODULE Spec2Model ----
(***************************************************************************)
(* Define-by-run reverse-mode automatic differentiation (src/src/core.rs). *)
(*                                                                         *)
(* A node (VariableInternal) is a record; Variable handles, the Rc strong  *)
(* counts and the Creator objects are kept in separate heaps indexed by    *)
(* allocation order.  ArrayD<A> is a one-dimensional sequence of integers  *)
(* (its length is its shape); Option<T> is a sequence of length 0 or 1.    *)
(* backward() is modelled one loop iteration per step.                     *)
(***************************************************************************)
EXTENDS Integers, Sequences, FiniteSets, TLC

\* ------------------------------------------------------------------ bounds
MaxNodes == 4          \* nodes ever allocated
MaxBackward == 2       \* backward() calls
MaxHandles == 2        \* Variable handles a caller holds on one node
MaxOwnedNodes == 3     \* SpecOwnership, SpecPruned, SpecRepository,
                       \* SpecTermination: no call from this many nodes on
MaxAccessNodes == 2    \* SpecAccess: no call from this many nodes on

VARIABLES
    nodes,        \* heap of VariableInternal, by node id
    strong,       \* Rc strong count of every node
    handles,      \* number of Variable handles the caller holds on every node
    creatorHeap,  \* heap of Creator objects, by creator id
    pc,           \* "idle" | "backward" | "panicked" | "already_borrowed"
    start,        \* the node of the current / last backward() (0: another
                  \* operation came after it)
    creators,     \* the worklist of backward(): creator ids, sorted by generation
    seen_set,     \* the seen set of backward(): creator ids
    replayed,     \* history: the replays of the current / last traversal
    pre,          \* history: nodes when the current / last backward() was called
    first,        \* history: the backward() that a cleargrad() followed
    applied,      \* history: by creator id, the arrays forward was applied to
    nBackward     \* number of backward() calls made

vars == <<nodes, strong, handles, creatorHeap, pc, start, creators, seen_set,
          replayed, pre, first, applied, nBackward>>

\* ------------------------------------------------------------------ arrays
None == <<>>
Some(x) == <<x>>

Shape(a) == Len(a)
BroadcastShape(a, b) == IF Len(a) >= Len(b) THEN Len(a) ELSE Len(b)
At(a, i) == IF Len(a) = 1 THEN a[1] ELSE a[i]

Ones(shape) == [i \in 1..shape |-> 1]
Zeros(shape) == [i \in 1..shape |-> 0]
ArrAdd(a, b) == [i \in 1..BroadcastShape(a, b) |-> At(a, i) + At(b, i)]
ArrMul(a, b) == [i \in 1..BroadcastShape(a, b) |-> At(a, i) * At(b, i)]
ArrNeg(a) == [i \in 1..Len(a) |-> 0 - a[i]]
ArrScale(a, k) == [i \in 1..Len(a) |-> a[i] * k]

\* ------------------------------------------------------------------ inputs
LeafData == { <<2>> }
\* what a caller writes through data_mut() / grad_mut()
DataValues == { <<1, 3>> }
GradValues == { Some(<<1, 1>>) }

\* Function implementations: arithmetic operations of the crate, and two
\* implementations of the public trait supplied by a caller: "Twin" has two
\* outputs, "Lossy" has a backward that returns one gradient for two inputs.
Functions == { "Add", "Mul", "Square", "Twin", "Lossy" }

\* one function of each shape: 2 inputs, 1 input, 2 outputs
ShapesOfFunctions == { "Add", "Square", "Twin" }

\* the operations of the repository among Functions
RepositoryFunctions == { "Add", "Mul", "Square" }

Arity(f) == IF f \in {"Add", "Mul", "Lossy"} THEN 2 ELSE 1
OutputCount(f) == IF f = "Twin" THEN 2 ELSE 1

Forward(f, xs) ==
    CASE f = "Add"    -> << ArrAdd(xs[1], xs[2]) >>
      [] f = "Mul"    -> << ArrMul(xs[1], xs[2]) >>
      [] f = "Neg"    -> << ArrNeg(xs[1]) >>
      [] f = "Square" -> << ArrMul(xs[1], xs[1]) >>
      [] f = "Twin"   -> << xs[1], ArrMul(xs[1], xs[1]) >>
      [] f = "Lossy"  -> << ArrAdd(xs[1], xs[2]) >>

FunctionBackward(f, xs, gys) ==
    CASE f = "Add"    -> << gys[1], gys[1] >>
      [] f = "Mul"    -> << ArrMul(gys[1], xs[2]), ArrMul(gys[1], xs[1]) >>
      [] f = "Neg"    -> << ArrNeg(gys[1]) >>
      [] f = "Square" -> << ArrMul(ArrScale(xs[1], 2), gys[1]) >>
      [] f = "Twin"   -> << ArrAdd(gys[1], ArrMul(ArrScale(xs[1], 2), gys[2])) >>
      [] f = "Lossy"  -> << gys[1] >>

\* ------------------------------------------------------------------ helpers
Range(s) == { s[i] : i \in 1..Len(s) }
Max(S) == CHOOSE m \in S : \A x \in S : x <= m

RECURSIVE Occurrences(_, _)
Occurrences(s, x) ==
    IF s = <<>> THEN 0
    ELSE (IF Head(s) = x THEN 1 ELSE 0) + Occurrences(Tail(s), x)

\* ------------------------------------------------------------------ heap
\* history reset by an operation other than cleargrad and backward
NoFirst == [n |-> 0, x |-> 0, grads |-> <<>>]

History ==
    /\ start' = 0
    /\ replayed' = <<>>
    /\ pre' = <<>>
    /\ first' = NoFirst

VariableInternalNew(data) ==
    [data |-> data, grad |-> None, generation |-> 0, creator |-> 0]

\* the slot of a node / a Creator whose memory was released
FreedNode == [data |-> <<>>, grad |-> None, generation |-> 0, creator |-> 0]
FreedCreator == [inputs |-> <<>>, outputs |-> <<>>, generation |-> 0, function |-> "freed"]

Alive(n) == strong[n] > 0
NodeIds == 1..Len(nodes)
Live == { n \in NodeIds : Alive(n) }

\* faulty variant: the Creator holds its outputs with Rc instead of Weak
StrongRefsWithOutputs(c) == c.inputs \o c.outputs

\* The nodes a Creator owns (Rc): its inputs.  Its outputs are Weak.
StrongRefs(c) == c.inputs

\* Weak::upgrade on an output of a Creator
Upgrade(o) == IF Alive(o) THEN Some(o) ELSE None

\* Dropping Rc's: `pending` are node ids whose strong count goes down by one.
\* A count reaching 0 frees the node; that drops the node's Rc<Creator>, the
\* only one there is outside a running backward(), and so the Creator's inputs.
RECURSIVE DropRc(_, _)
DropRc(st, pending) ==
    IF pending = <<>> THEN st
    ELSE LET n == Head(pending)
             left == st.strong[n] - 1
             c == st.nodes[n].creator
         IN  IF left > 0
             THEN DropRc([st EXCEPT !.strong[n] = left], Tail(pending))
             ELSE DropRc([strong |-> [st.strong EXCEPT ![n] = 0],
                          nodes |-> [st.nodes EXCEPT ![n] = FreedNode],
                          heap |-> IF c = 0 THEN st.heap
                                   ELSE [st.heap EXCEPT ![c] = FreedCreator]],
                         (IF c = 0 THEN <<>> ELSE StrongRefs(st.heap[c]))
                             \o Tail(pending))

\* ------------------------------------------------------------------ Function::call
\* faulty variant: the generation of the first input instead of the maximum
CallGenerationOfFirst(inputs) == nodes[inputs[1]].generation

CallGeneration(inputs) == Max({ nodes[inputs[i]].generation : i \in 1..Len(inputs) })

\* set_creator: the generation an output gets from its Creator
SetCreatorGeneration(creator) == creator.generation + 1

\* One Creator is built per output (the closure of for_each builds it, and
\* set_creator wraps it in its own Rc): output j gets creator id base + j.
CreatorOf(base, j) == base + j

\* set_creator: generation and creator of the node it is called on
SetCreator(internal, creator, rc) ==
    [internal EXCEPT !.generation = SetCreatorGeneration(creator), !.creator = rc]

\* faulty variant: set_creator is called on the j-th node of the graph
\* instead of the j-th output
SetCreatorByPosition(inputs, outputs) == [j \in 1..Len(outputs) |-> j]

\* outputs.iter().for_each(|output| output.set_creator(..)): the nodes
\* set_creator is called on
SetCreatorTargets(inputs, outputs) == outputs

\* the nodes borrowed (shared) from `let xs = ..` to the end of call: the
\* Ref guards of input.data() are kept in xs
CallGuards(inputs) == Range(inputs)

Call(f, inputs) ==
    LET xs == [i \in 1..Len(inputs) |-> nodes[inputs[i]].data]
        generation == CallGeneration(inputs)
        ys == Forward(f, xs)
        M == Len(ys)
        n0 == Len(nodes)
        c0 == Len(creatorHeap)
        outputs == [j \in 1..M |-> n0 + j]
        created == nodes \o [j \in 1..M |-> VariableInternalNew(ys[j])]
        creator == [inputs |-> inputs, outputs |-> outputs,
                    generation |-> generation, function |-> f]
        targets == SetCreatorTargets(inputs, outputs)
        K == Len(targets)
        last(n) == Max({ j \in 1..K : targets[j] = n })
        owned == StrongRefs(creator)
    IN  /\ pc = "idle"
        /\ \A i \in 1..Len(inputs) : handles[inputs[i]] > 0
        /\ n0 + OutputCount(f) <= MaxNodes
        /\ IF Range(targets) \cap CallGuards(inputs) # {}
           THEN \* borrow_mut() in set_creator on a node xs still borrows
                /\ pc' = "already_borrowed"
                /\ UNCHANGED <<nodes, creatorHeap, applied, strong, handles>>
           ELSE /\ pc' = pc
                /\ nodes' = [n \in 1..(n0 + M) |->
                                IF n \in Range(targets)
                                THEN SetCreator(created[n], creator,
                                                CreatorOf(c0, last(n)))
                                ELSE created[n]]
                /\ creatorHeap' = creatorHeap \o [j \in 1..K |-> creator]
                /\ applied' = applied \o [j \in 1..K |-> xs]
                /\ strong' = [n \in 1..(n0 + M) |->
                                (IF n <= n0 THEN strong[n] ELSE 1)
                                    + K * Occurrences(owned, n)]
                /\ handles' = handles \o [j \in 1..M |-> 1]
        /\ History
        /\ UNCHANGED <<creators, seen_set, nBackward>>

\* ------------------------------------------------------------------ Variable
New(data) ==
    /\ pc = "idle"
    /\ Len(nodes) < MaxNodes
    /\ nodes' = Append(nodes, VariableInternalNew(data))
    /\ strong' = Append(strong, 1)
    /\ handles' = Append(handles, 1)
    /\ History
    /\ UNCHANGED <<creatorHeap, pc, creators, seen_set, applied, nBackward>>

\* #[derive(Clone)] on Variable: one more Rc to the same node
Clone(n) ==
    /\ pc = "idle"
    /\ handles[n] > 0
    /\ handles[n] < MaxHandles
    /\ handles' = [handles EXCEPT ![n] = @ + 1]
    /\ strong' = [strong EXCEPT ![n] = @ + 1]
    /\ History
    /\ UNCHANGED <<nodes, creatorHeap, pc, creators, seen_set, applied, nBackward>>

\* a Variable handle goes out of scope
Drop(n) ==
    LET st == DropRc([strong |-> strong, nodes |-> nodes, heap |-> creatorHeap], <<n>>)
    IN  /\ pc = "idle"
        /\ handles[n] > 0
        /\ handles' = [handles EXCEPT ![n] = @ - 1]
        /\ strong' = st.strong
        /\ nodes' = st.nodes
        /\ creatorHeap' = st.heap
        /\ History
        /\ UNCHANGED <<pc, creators, seen_set, applied, nBackward>>

\* *x.data_mut() = data
DataMut(n, data) ==
    /\ pc = "idle"
    /\ handles[n] > 0
    /\ nodes[n].data # data
    /\ nodes' = [nodes EXCEPT ![n].data = data]
    /\ History
    /\ UNCHANGED <<strong, handles, creatorHeap, pc, creators, seen_set, applied, nBackward>>

\* *x.grad_mut() = grad
GradMut(n, grad) ==
    /\ pc = "idle"
    /\ handles[n] > 0
    /\ nodes[n].grad # grad
    /\ nodes' = [nodes EXCEPT ![n].grad = grad]
    /\ History
    /\ UNCHANGED <<strong, handles, creatorHeap, pc, creators, seen_set, applied, nBackward>>

Cleargrad(n) ==
    /\ pc = "idle"
    /\ handles[n] > 0
    /\ nodes[n].grad # None
    /\ nodes' = [nodes EXCEPT ![n].grad = None]
    \* history: a cleargrad right after a backward that returned keeps that
    \* backward's start node and the gradients it left
    /\ first' = IF start # 0
                THEN [n |-> start, x |-> n, grads |-> [m \in NodeIds |-> nodes[m].grad]]
                ELSE NoFirst
    /\ start' = 0
    /\ replayed' = <<>>
    /\ pre' = <<>>
    /\ UNCHANGED <<strong, handles, creatorHeap, pc, creators, seen_set, applied, nBackward>>

\* ------------------------------------------------------------------ backward
\* creators.sort_by(|a, b| a.generation.cmp(&b.generation)): a stable sort
RECURSIVE InsertByGeneration(_, _)
InsertByGeneration(sorted, c) ==
    IF sorted = <<>> THEN <<c>>
    ELSE IF creatorHeap[Head(sorted)].generation > creatorHeap[c].generation
         THEN <<c>> \o sorted
         ELSE <<Head(sorted)>> \o InsertByGeneration(Tail(sorted), c)

\* faulty variant: the worklist is left in push order
SortByPushOrder(s) == s

RECURSIVE SortByGeneration(_)
SortByGeneration(s) ==
    IF s = <<>> THEN <<>>
    ELSE InsertByGeneration(SortByGeneration(SubSeq(s, 1, Len(s) - 1)), s[Len(s)])

\* faulty variant: no Creator is ever found in seen_set
SeenNever(seen, ic) == FALSE

\* Rc::ptr_eq against every element of seen_set
Seen(seen, ic) == \E i \in 1..Len(seen) : seen[i] = ic

\* faulty variant: the gradient replaces the grad
OverwriteGrad(grad, gx) == Some(gx)

\* input.grad = match &input.grad { Some(g) => Some(g + gx), None => Some(gx) }
AccumulateGrad(grad, gx) ==
    IF grad # None THEN Some(ArrAdd(grad[1], gx)) ELSE Some(gx)

\* faulty variant: the gradient of position k lands on the k-th node of the
\* graph instead of the k-th input
RECURSIVE ForEachInputByPosition(_, _, _, _)
ForEachInputByPosition(st, inputs, gxs, k) ==
    IF k > Len(inputs) \/ k > Len(gxs) THEN st
    ELSE LET ic == st.nodes[inputs[k]].creator
             push == ic # 0 /\ ~Seen(st.seen_set, ic)
         IN  ForEachInputByPosition(
                [nodes |-> [st.nodes EXCEPT ![k].grad =
                                AccumulateGrad(st.nodes[k].grad, gxs[k])],
                 creators |-> IF push THEN SortByGeneration(Append(st.creators, ic))
                              ELSE st.creators,
                 seen_set |-> IF push THEN Append(st.seen_set, ic) ELSE st.seen_set],
                inputs, gxs, k + 1)

\* c.inputs.iter().zip(gxs).for_each(..): position k onwards; zip ends with
\* the shorter of the two sequences
RECURSIVE ForEachInput(_, _, _, _)
ForEachInput(st, inputs, gxs, k) ==
    IF k > Len(inputs) \/ k > Len(gxs) THEN st
    ELSE LET input == inputs[k]
             ic == st.nodes[input].creator
             push == ic # 0 /\ ~Seen(st.seen_set, ic)
         IN  ForEachInput(
                [nodes |-> [st.nodes EXCEPT ![input].grad =
                                AccumulateGrad(st.nodes[input].grad, gxs[k])],
                 creators |-> IF push THEN SortByGeneration(Append(st.creators, ic))
                              ELSE st.creators,
                 seen_set |-> IF push THEN Append(st.seen_set, ic) ELSE st.seen_set],
                inputs, gxs, k + 1)

\* faulty variant: an absent grad is replaced by zeros
OutputGradZeros(o) ==
    IF nodes[o].grad # None THEN nodes[o].grad[1] ELSE Zeros(Shape(nodes[o].data))

\* the gradient an output hands to the backward rule
OutputGrad(o) ==
    IF nodes[o].grad # None THEN nodes[o].grad[1] ELSE Ones(Shape(nodes[o].data))

\* faulty variant: the Refs on the inputs' data are kept over the for_each
BorrowedWithInputRefs(s, inputs) == {s} \cup Range(inputs)

\* The nodes borrowed (shared) while the for_each over the inputs runs: the
\* start node, which Variable::backward borrows for the whole traversal.  The
\* Refs on the inputs' data are temporaries of the statement that calls the
\* backward rule, and the borrows of the outputs end with the closure of gys.
BorrowedInForEach(s, inputs) == {s}

\* faulty variant: the creator is unwrapped instead of matched
StartOutcomeUnwrap(n) == IF nodes[n].creator = 0 THEN "panic" ELSE "loop"

\* what `if let Some(c) = &self.creator` decides
StartOutcome(n) == IF nodes[n].creator = 0 THEN "return" ELSE "loop"

\* x.backward(): Variable::backward borrows the node and enters the loop
BackwardStart(n) ==
    /\ pc = "idle"
    /\ handles[n] > 0
    /\ nBackward < MaxBackward
    /\ nBackward' = nBackward + 1
    /\ pre' = nodes
    /\ start' = n
    /\ replayed' = <<>>
    /\ CASE StartOutcome(n) = "return" ->
              /\ pc' = "idle"
              /\ creators' = <<>>
              /\ seen_set' = <<>>
         [] StartOutcome(n) = "loop" ->
              /\ pc' = "backward"
              /\ creators' = << nodes[n].creator >>
              /\ seen_set' = << nodes[n].creator >>
         [] OTHER ->
              /\ pc' = "panicked"
              /\ creators' = <<>>
              /\ seen_set' = <<>>
    /\ UNCHANGED <<nodes, strong, handles, creatorHeap, first, applied>>

\* one iteration of the loop: creators.pop() and the replay of that Creator
BackwardStep ==
    /\ pc = "backward"
    /\ creators # <<>>
    /\ LET id == creators[Len(creators)]
           c == creatorHeap[id]
           popped == SubSeq(creators, 1, Len(creators) - 1)
           dead == \E j \in 1..Len(c.outputs) : Upgrade(c.outputs[j]) = None
           gys == [j \in 1..Len(c.outputs) |-> OutputGrad(c.outputs[j])]
           xs == [i \in 1..Len(c.inputs) |-> nodes[c.inputs[i]].data]
           gxs == FunctionBackward(c.function, xs, gys)
           \* the positions whose input.borrow_mut() finds the node borrowed
           borrowed == BorrowedInForEach(start, c.inputs)
           conflicts == { k \in 1..Len(c.inputs) :
                            k <= Len(gxs) /\ c.inputs[k] \in borrowed }
           before == IF conflicts = {} THEN c.inputs
                     ELSE SubSeq(c.inputs, 1, (CHOOSE k \in conflicts :
                                                  \A l \in conflicts : k <= l) - 1)
           st == ForEachInput([nodes |-> nodes, creators |-> popped,
                               seen_set |-> seen_set], before, gxs, 1)
       IN  IF dead
           THEN \* output.upgrade().unwrap() on a released output
                /\ pc' = "panicked"
                /\ creators' = popped
                /\ replayed' = Append(replayed, [c |-> id, xs |-> <<>>, gys |-> <<>>,
                                                 gxs |-> <<>>, aborted |-> TRUE])
                /\ UNCHANGED <<nodes, seen_set>>
           ELSE /\ pc' = IF conflicts = {} THEN "backward" ELSE "already_borrowed"
                /\ nodes' = st.nodes
                /\ creators' = st.creators
                /\ seen_set' = st.seen_set
                /\ replayed' = Append(replayed, [c |-> id, xs |-> xs, gys |-> gys,
                                                 gxs |-> gxs, aborted |-> conflicts # {}])
    /\ UNCHANGED <<strong, handles, creatorHeap, start, pre, first, applied, nBackward>>

\* creators.is_empty(): break, and backward() returns
BackwardReturn ==
    /\ pc = "backward"
    /\ creators = <<>>
    /\ pc' = "idle"
    /\ seen_set' = <<>>
    /\ UNCHANGED <<nodes, strong, handles, creatorHeap, start, creators, replayed,
                   pre, first, applied, nBackward>>

\* ------------------------------------------------------------------ specification
Init ==
    /\ nodes = <<>>
    /\ strong = <<>>
    /\ handles = <<>>
    /\ creatorHeap = <<>>
    /\ pc = "idle"
    /\ start = 0
    /\ creators = <<>>
    /\ seen_set = <<>>
    /\ replayed = <<>>
    /\ pre = <<>>
    /\ first = NoFirst
    /\ applied = <<>>
    /\ nBackward = 0

Build(F) ==
    \/ \E data \in LeafData : New(data)
    \/ \E f \in F : \E inputs \in [1..Arity(f) -> NodeIds] : Call(f, inputs)

Backward ==
    \/ \E n \in NodeIds : BackwardStart(n)
    \/ BackwardStep
    \/ BackwardReturn

\* the engine: graph construction, cleargrad and backward
Next ==
    \/ Build(Functions)
    \/ \E n \in NodeIds : Cleargrad(n)
    \/ Backward

Spec == Init /\ [][Next]_vars

\* ownership: graph construction, handle clones and handle drops
NextOwnership ==
    \/ Len(nodes) < MaxOwnedNodes /\ Build(ShapesOfFunctions)
    \/ \E n \in NodeIds : Clone(n)
    \/ \E n \in NodeIds : Drop(n)

SpecOwnership == Init /\ [][NextOwnership]_vars

\* backward on a graph some of whose handles were dropped
NextPruned ==
    \/ Len(nodes) < MaxOwnedNodes /\ Build(ShapesOfFunctions)
    \/ \E n \in NodeIds : Drop(n)
    \/ Backward

SpecPruned == Init /\ [][NextPruned]_vars

\* the accessors: a caller writing data and grad in place between operations
NextAccess ==
    \/ Len(nodes) < MaxAccessNodes /\ Build(ShapesOfFunctions)
    \/ \E n \in NodeIds : \E data \in DataValues : DataMut(n, data)
    \/ \E n \in NodeIds : \E grad \in GradValues : GradMut(n, grad)
    \/ Backward

SpecAccess == Init /\ [][NextAccess]_vars

\* the traversal: graph construction with operations that keep the Function
\* contract (one gradient per input), and backward
NextTraversal ==
    \/ Build(ShapesOfFunctions)
    \/ Backward

SpecTraversal == Init /\ [][NextTraversal]_vars

\* the traversal of small graphs of the operations of the repository
NextRepository ==
    \/ Len(nodes) < MaxOwnedNodes /\ Build(RepositoryFunctions)
    \/ Backward

SpecRepository == Init /\ [][NextRepository]_vars

\* the first backward() on a graph of the operations of the repository
NextFirstBackward ==
    \/ Len(nodes) < MaxOwnedNodes /\ Build(RepositoryFunctions)
    \/ \E n \in NodeIds : nBackward = 0 /\ BackwardStart(n)
    \/ BackwardStep
    \/ BackwardReturn

\* backward() runs its loop to the end once it was called: nothing suspends
\* an iteration or the return
SpecTermination ==
    Init /\ [][NextFirstBackward]_vars /\ WF_vars(BackwardStep) /\ WF_vars(BackwardReturn)

\* ------------------------------------------------------------------ graph
Derived(n) == nodes[n].creator # 0
CreatorRecord(n) == creatorHeap[nodes[n].creator]
InputsOf(n) == IF Derived(n) THEN Range(CreatorRecord(n).inputs) ELSE {}

\* the nodes reachable from the nodes of S through creator edges, S included
RECURSIVE Closure(_)
Closure(S) ==
    LET T == S \cup UNION { InputsOf(n) : n \in S }
    IN  IF T = S THEN S ELSE Closure(T)

Reached(s) == Closure({s})

\* a backward() call has returned and nothing was done since
Returned == pc = "idle" /\ start # 0

\* ------------------------------------------------------------------ chain rule
\* The applications (one per call) that made the nodes reached from s.  The
\* Creators of one application are equal records, one per output.
Applications(s) == { CreatorRecord(n) : n \in { m \in Reached(s) : Derived(m) } }

RECURSIVE SumArrays(_, _)
SumArrays(S, shape) ==
    IF S = {} THEN Zeros(shape)
    ELSE LET t == CHOOSE t \in S : TRUE
         IN  ArrAdd(t.v, SumArrays(S \ {t}, shape))

\* The sum, over every path from s to n, of the product of the local
\* gradients along the path: the gradient of s itself is ones, and n gets,
\* from every input position it fills in an application, the local gradient
\* of that position applied to the gradients of the application's outputs
\* (zero for an output no path from s leads to).
RECURSIVE PathSum(_, _)
PathSum(s, n) ==
    IF n = s THEN Ones(Shape(nodes[s].data))
    ELSE LET term(a, k) ==
                 [a |-> a, k |-> k,
                  v |-> FunctionBackward(
                            a.function,
                            [i \in 1..Len(a.inputs) |-> nodes[a.inputs[i]].data],
                            [j \in 1..Len(a.outputs) |->
                                IF a.outputs[j] \in Reached(s)
                                THEN PathSum(s, a.outputs[j])
                                ELSE Zeros(Shape(nodes[a.outputs[j]].data))])[k]]
             terms == UNION { { term(a, k) : k \in { k \in 1..Len(a.inputs) :
                                                       a.inputs[k] = n } }
                              : a \in Applications(s) }
         IN  SumArrays(terms, Shape(nodes[n].data))

\* every application reached from s keeps the contract of Function (one
\* gradient per input) and has every output on a path from s
WellFormedFrom(s) ==
    \A a \in Applications(s) :
        /\ a.function # "Lossy"
        /\ \A j \in 1..Len(a.outputs) : Alive(a.outputs[j]) /\ a.outputs[j] \in Reached(s)

\* ------------------------------------------------------------------ claims

\* C1: after backward() from s on a graph whose grads were all absent, every
\* node reached from s through creator edges holds the sum, over the paths
\* from s to it, of the product of the local gradients.  Stated on the graphs
\* where every operation reached keeps the Function contract and has all of
\* its outputs on a path from s.
C1_PathSumLaw ==
    (Returned /\ (\A m \in NodeIds : pre[m].grad = None) /\ WellFormedFrom(start))
        => \A n \in Reached(start) \ {start} :
               nodes[n].grad = Some(PathSum(start, n))

\* C2: backward() on a node whose grad is absent leaves that node's grad
\* present and equal to ones shaped like its data.
C2_SeedRetained ==
    (Returned /\ pre[start].grad = None)
        => nodes[start].grad = Some(Ones(Shape(nodes[start].data)))

\* C3: after y.backward(), x.cleargrad() and y.backward() again, the leaf x
\* (an ancestor of y) has the grad it had after the first backward.
C3_ReseedIdempotent ==
    (Returned /\ first.n = start /\ first.x # start
        /\ first.x \in Reached(start) /\ ~Derived(first.x))
        => nodes[first.x].grad = first.grads[first.x]

\* C5: a Creator output whose node was released is skipped; backward never
\* aborts on it.
C5_DeadOutputSkipped ==
    \A i \in 1..Len(replayed) : ~replayed[i].aborted

\* C6: every output of one application has the same Creator, by identity.
C6_OneSharedCreator ==
    \A n \in Live : Derived(n) =>
        \A j \in 1..Len(CreatorRecord(n).outputs) :
            LET o == CreatorRecord(n).outputs[j]
            IN  Alive(o) => nodes[o].creator = nodes[n].creator

\* C8: a replay whose backward rule returned a number of gradients different
\* from the number of inputs of the Creator aborts the traversal.
C8_ArityFailFast ==
    \A i \in 1..Len(replayed) :
        Len(replayed[i].gxs) # Len(creatorHeap[replayed[i].c].inputs)
            => (replayed[i].aborted /\ pc = "panicked")

\* C9: a present grad has the shape of the node's data, whatever the caller
\* does with the accessors.
C9_ShapeInvariant ==
    \A n \in Live :
        nodes[n].grad # None => Shape(nodes[n].grad[1]) = Shape(nodes[n].data)

\* C4: every leaf has generation 0, every Creator has the maximum generation
\* of its inputs, every derived node has its Creator's generation + 1 and so
\* a generation above each of its inputs.
C4_GenerationInvariant ==
    \A n \in Live :
        IF ~Derived(n) THEN nodes[n].generation = 0
        ELSE /\ CreatorRecord(n).generation
                    = Max({ nodes[i].generation : i \in InputsOf(n) })
             /\ nodes[n].generation = CreatorRecord(n).generation + 1
             /\ \A i \in InputsOf(n) : nodes[i].generation < nodes[n].generation

\* a derived node whose inputs have different generations
C4_Witness ==
    \E n \in Live : Derived(n) /\
        \E i, j \in InputsOf(n) : nodes[i].generation < nodes[j].generation

\* C7: a node is alive exactly when a caller holds a handle to it or it is an
\* input of the Creator of an alive node; a released node took its Creator
\* along, and with no handle left nothing is left.
C7_Ownership ==
    /\ \A n \in NodeIds :
          Alive(n) <=> (handles[n] > 0 \/ \E m \in Live : n \in InputsOf(m))
    /\ \A n \in NodeIds : ~Alive(n) => nodes[n] = FreedNode
    /\ \A c \in 1..Len(creatorHeap) :
          creatorHeap[c] # FreedCreator <=> \E m \in Live : nodes[m].creator = c
    /\ (\A n \in NodeIds : handles[n] = 0) => Live = {}

\* an output was released while its sibling output lives on, and a node with
\* no handle left is kept alive as an input
C7_Witness ==
    /\ \E p \in Live : Derived(p) /\
          \E j \in 1..Len(CreatorRecord(p).outputs) : ~Alive(CreatorRecord(p).outputs[j])
    /\ \E n \in Live : handles[n] = 0

\* C10: backward() on a leaf returns, and changes nothing but, at most, the
\* grad of that leaf.
C10_LeafBackwardFrame ==
    (start # 0 /\ pre[start].creator = 0) =>
        /\ pc = "idle"
        /\ Len(nodes) = Len(pre)
        /\ \A m \in NodeIds : m # start => nodes[m] = pre[m]
        /\ nodes[start].data = pre[start].data
        /\ nodes[start].generation = pre[start].generation
        /\ nodes[start].creator = pre[start].creator

\* backward() returned on a leaf while another node holds a grad
C10_Witness ==
    /\ Returned
    /\ pre[start].creator = 0
    /\ \E m \in Live : m # start /\ nodes[m].grad # None

\* ------------------------------------------------------------------ traversal
\* the Creators consuming an output of Creator e, among the Creators of the
\* nodes reached from s
Consumers(s, e) ==
    { nodes[m].creator : m \in { m \in Reached(s) : Derived(m) /\
          Range(CreatorRecord(m).inputs) \cap Range(creatorHeap[e].outputs) # {} } }

\* the Creators replayed before the i-th replay of the running traversal
ReplayedBefore(i) == { replayed[j].c : j \in 1..(i - 1) }

\* C11: when a Creator is popped and replayed, every Creator reached from the
\* start node that consumes one of its outputs has been replayed already.
C11_DependencyOrder ==
    \A i \in 1..Len(replayed) :
        Consumers(start, replayed[i].c) \subseteq ReplayedBefore(i)

\* C12: the worklist is kept in ascending generation order, so the Creator
\* popped from its end has the largest generation in the worklist; no Creator
\* left in the worklist has a generation above a replayed one, and the
\* generations of the Creators replayed by one backward() never increase.
C12_GenerationOrder ==
    LET gen(id) == creatorHeap[id].generation
    IN  /\ \A i, j \in 1..Len(creators) :
              i < j => gen(creators[i]) <= gen(creators[j])
        /\ \A i \in 1..Len(replayed) : \A k \in 1..Len(creators) :
              gen(replayed[i].c) >= gen(creators[k])
        /\ \A i, j \in 1..Len(replayed) :
              i < j => gen(replayed[i].c) >= gen(replayed[j].c)

\* a replay left two Creators of different generations in the worklist, the
\* one of the lower generation pushed last
C12_Witness ==
    /\ pc = "backward"
    /\ Len(replayed) >= 1
    /\ Len(creators) = 2
    /\ Len(seen_set) = 3
    /\ seen_set[3] = creators[1]
    /\ creatorHeap[creators[1]].generation < creatorHeap[creators[2]].generation

\* C13: one backward() replays no application twice and, once it returned,
\* has replayed every application reached from the start node; a Creator
\* enters seen_set, and with it the worklist, once.  An application is the
\* Creator record: its function, inputs, outputs and generation.
C13_ExactlyOnce ==
    /\ \A i, j \in 1..Len(replayed) :
          i < j => creatorHeap[replayed[i].c] # creatorHeap[replayed[j].c]
    /\ \A i, j \in 1..Len(seen_set) : i < j => seen_set[i] # seen_set[j]
    /\ Returned =>
          { creatorHeap[replayed[i].c] : i \in 1..Len(replayed) } = Applications(start)

\* C14: a backward() that entered its loop empties the worklist and returns,
\* and a Creator that was replayed is never in the worklist again.
C14_Termination ==
    /\ [](\A i \in 1..Len(replayed) : replayed[i].c \notin Range(creators))
    /\ (pc = "backward") ~> (pc = "idle" /\ creators = <<>>)

\* a backward() returned after replaying a Creator two of whose inputs have
\* the same Creator
C14_Witness ==
    /\ Returned
    /\ \E i \in 1..Len(replayed) :
          LET c == creatorHeap[replayed[i].c]
          IN  /\ Len(c.inputs) = 2
              /\ nodes[c.inputs[1]].creator # 0
              /\ nodes[c.inputs[1]].creator = nodes[c.inputs[2]].creator

\* C15: from the call of backward() on s until the next operation, the graph
\* has the nodes it had, every node has the data, generation and creator it
\* had, every node that is neither s nor reached from s has the grad it had,
\* and no step of the traversal changes a Creator, a reference count or a
\* handle.
C15_BackwardFrame ==
    /\ [](start # 0 =>
            /\ Len(nodes) = Len(pre)
            /\ \A m \in NodeIds :
                  /\ nodes[m].data = pre[m].data
                  /\ nodes[m].generation = pre[m].generation
                  /\ nodes[m].creator = pre[m].creator
                  /\ m \notin Reached(start) => nodes[m].grad = pre[m].grad)
    /\ [][(nBackward' # nBackward \/ pc = "backward") =>
            /\ creatorHeap' = creatorHeap
            /\ strong' = strong
            /\ handles' = handles]_vars

\* a backward() returned that changed the grad of an ancestor of its start
\* node while a node it does not reach holds a grad
C15_Witness ==
    /\ Returned
    /\ \E m \in Reached(start) : nodes[m].grad # pre[m].grad
    /\ \E m \in Live \ Reached(start) : nodes[m].grad # None

\* C16: a step that extends the graph leaves every node that existed, with
\* its data, grad, generation and creator, and every Creator that existed, as
\* they were; the Creators it adds have inputs among the nodes that existed
\* and outputs among the nodes it adds.
C16_CallFrame ==
    [][Len(nodes') > Len(nodes) =>
        /\ \A m \in 1..Len(nodes) : nodes'[m] = nodes[m]
        /\ \A c \in 1..Len(creatorHeap) : creatorHeap'[c] = creatorHeap[c]
        /\ \A c \in (Len(creatorHeap) + 1)..Len(creatorHeap') :
              /\ Range(creatorHeap'[c].inputs) \subseteq 1..Len(nodes)
              /\ Range(creatorHeap'[c].outputs) \subseteq (Len(nodes) + 1)..Len(nodes')
        /\ \A m \in (Len(nodes) + 1)..Len(nodes') :
              nodes'[m].creator \in {0} \cup (Len(creatorHeap) + 1)..Len(creatorHeap')]_vars

\* the last operation applied a Function to a derived node that holds a grad
C16_Witness ==
    /\ start = 0
    /\ nodes # <<>>
    /\ Derived(Len(nodes))
    /\ \E n \in InputsOf(Len(nodes)) : Derived(n) /\ nodes[n].grad # None

\* C17: the input arrays a replay hands to the backward rule are the arrays
\* the forward of that Creator was applied to when it was called.
C17_OriginalInputs ==
    \A i \in 1..Len(replayed) :
        ~replayed[i].aborted => replayed[i].xs = applied[replayed[i].c]

\* C18: a replay hands the backward rule, for every output of the Creator,
\* ones shaped like the output's data when the output's grad is absent at
\* that moment, and the output's grad when it is present.
C18_OnesSubstitution ==
    [][Len(replayed') = Len(replayed) + 1 =>
        LET r == replayed'[Len(replayed')]
            c == creatorHeap[r.c]
        IN  ~r.aborted =>
              /\ Len(r.gys) = Len(c.outputs)
              /\ \A j \in 1..Len(c.outputs) :
                    r.gys[j] = IF nodes[c.outputs[j]].grad = None
                               THEN [k \in 1..Len(nodes[c.outputs[j]].data) |-> 1]
                               ELSE nodes[c.outputs[j]].grad[1]]_vars

\* a backward() returned that replayed a Creator of two outputs, one with a
\* grad accumulated by the traversal, the other, not the start node, with
\* none
C18_Witness ==
    /\ Returned
    /\ \E i \in 1..Len(replayed) :
          LET c == creatorHeap[replayed[i].c]
          IN  /\ Len(c.outputs) = 2
              /\ start \notin Range(c.outputs)
              /\ nodes[c.outputs[1]].grad # None
              /\ pre[c.outputs[1]].grad = None
              /\ nodes[c.outputs[2]].grad = None
              /\ replayed[i].gys[2] = <<1>>

\* C19: a replay whose backward rule returned one gradient per input leaves
\* on every input node the grad it had plus the gradients of all the input
\* positions the node fills, and leaves the Creator of every input once in
\* seen_set and at most once in the worklist.
C19_RepeatedInput ==
    [][Len(replayed') = Len(replayed) + 1 =>
        LET r == replayed'[Len(replayed')]
            c == creatorHeap[r.c]
            positions(n) == { k \in 1..Len(c.inputs) : c.inputs[k] = n }
            lowest(n) == CHOOSE k \in positions(n) : \A l \in positions(n) : k <= l
            total(n) == SumArrays({ [k |-> k, v |-> r.gxs[k]] : k \in positions(n) },
                                  Shape(r.gxs[lowest(n)]))
        IN  (~r.aborted /\ Len(r.gxs) = Len(c.inputs)) =>
              \A n \in Range(c.inputs) :
                  /\ nodes'[n].grad = IF nodes[n].grad = None THEN Some(total(n))
                                      ELSE Some(ArrAdd(nodes[n].grad[1], total(n)))
                  /\ nodes[n].creator # 0 =>
                        /\ Occurrences(seen_set', nodes[n].creator) = 1
                        /\ Occurrences(creators', nodes[n].creator) <= 1]_vars

\* a backward() returned that replayed x * x on a derived node x whose grad
\* was absent, and replayed the Creator of x after it
C19_Witness ==
    /\ Returned
    /\ \E i \in 1..Len(replayed) :
          LET c == creatorHeap[replayed[i].c]
          IN  /\ c.function = "Mul"
              /\ c.inputs[1] = c.inputs[2]
              /\ pre[c.inputs[1]].grad = None
              /\ nodes[c.inputs[1]].grad
                    = Some(ArrAdd(replayed[i].gxs[1], replayed[i].gxs[2]))
              /\ \E j \in (i + 1)..Len(replayed) :
                    replayed[j].c = nodes[c.inputs[1]].creator

\* C20: no call and no traversal finds a node borrowed when it borrows it
\* mutably, and the start node of a traversal is not an input of a Creator
\* the traversal replays.
C20_BorrowSafety ==
    /\ pc # "already_borrowed"
    /\ \A i \in 1..Len(replayed) :
          start \notin Range(creatorHeap[replayed[i].c].inputs)

\* a backward() returned from a start node that is one of two outputs of its
\* Creator, after a replay that borrowed one node mutably at two positions
C20_Witness ==
    /\ Returned
    /\ Derived(start)
    /\ Len(CreatorRecord(start).outputs) = 2
    /\ \E i \in 1..Len(replayed) :
          LET c == creatorHeap[replayed[i].c]
          IN  Len(c.inputs) = 2 /\ c.inputs[1] = c.inputs[2]

====
